---------------------------- MODULE Spec2Model ----------------------------
(***************************************************************************)
(* Model of the authentication flow of the wayclip command-line client     *)
(* (src/src/auth.rs): the login command, the OAuth attempt with its        *)
(* loopback listener worker and one-shot channel, the password login, the  *)
(* 2FA challenge, registration, and the 2FA enrollment command.            *)
(*                                                                         *)
(* Text is modelled as a sequence of pieces.  A piece is either a          *)
(* separator character ("?", "&", " ", "\n", ";", "=") or a fixed run of   *)
(* text that contains no separator ("/auth/callback", "token=", "a", ...). *)
(* The parsers below split and match on these pieces the way the Rust      *)
(* code splits and matches on characters.                                  *)
(*                                                                         *)
(* Time: `elapsed` counts the seconds the coordinator has spent waiting on *)
(* the channel.  It advances only while every task is blocked on an        *)
(* outside event (a connection, request bytes), i.e. a step of the program *)
(* itself takes no measurable time against the 120 second deadline.        *)
(***************************************************************************)
EXTENDS Integers, Sequences, FiniteSets, TLC

(***************************************************************************)
(* Program constants                                                       *)
(***************************************************************************)
LOCAL_PORT == 54321
TIMEOUT_SECS == 120

(***************************************************************************)
(* Bounds of the model                                                     *)
(***************************************************************************)
\* seconds that pass in one step of the clock
TickSecs == 40
\* longest query part of a request target the listener reads, in pieces
MaxQueryLen == 3
\* longest query part of a request target parsed on its own, in pieces
MaxParseLen == 4
\* connections that clients make to the listener's port
MaxConns == 2
\* the longest recovery_codes array a verify answer carries
MaxCodes == 2

(***************************************************************************)
(* Text helpers                                                            *)
(***************************************************************************)
None == [tag |-> "None"]
Some(v) == [tag |-> "Some", val |-> v]

\* index of the first occurrence of piece c in s, 0 when absent
RECURSIVE IndexOf(_, _, _)
IndexOf(s, c, i) ==
    IF i > Len(s) THEN 0
    ELSE IF s[i] = c THEN i
    ELSE IndexOf(s, c, i + 1)

Contains(s, c) == IndexOf(s, c, 1) # 0

\* str::split(sep): the pieces between separators, empty ones included
RECURSIVE Split(_, _)
Split(s, sep) ==
    LET i == IndexOf(s, sep, 1)
    IN  IF i = 0 THEN <<s>>
        ELSE <<SubSeq(s, 1, i - 1)>> \o Split(SubSeq(s, i + 1, Len(s)), sep)

\* Iterator::nth(n), n counted from 0
Nth(seq, n) == IF n + 1 <= Len(seq) THEN Some(seq[n + 1]) ELSE None

\* str::lines().next(): the text before the first line break; nothing for
\* an empty text
FirstLine(s) ==
    IF s = <<>> THEN None
    ELSE LET i == IndexOf(s, "\n", 1)
         IN  IF i = 0 THEN Some(s) ELSE Some(SubSeq(s, 1, i - 1))

IsWhitespace(c) == c \in {" ", "\n"}

\* str::split_whitespace(): the maximal runs of non-whitespace
RECURSIVE SplitWhitespace(_)
SplitWhitespace(s) ==
    IF s = <<>> THEN <<>>
    ELSE IF IsWhitespace(s[1]) THEN SplitWhitespace(Tail(s))
    ELSE LET ws == {i \in 1..Len(s) : IsWhitespace(s[i])}
             e  == IF ws = {} THEN Len(s) + 1
                   ELSE CHOOSE i \in ws : \A j \in ws : i <= j
         IN  <<SubSeq(s, 1, e - 1)>> \o SplitWhitespace(SubSeq(s, e, Len(s)))

\* str::strip_prefix(p) for a prefix p that is one piece
StripPrefix_Keep(s, p) ==
    IF Len(s) >= 1 /\ s[1] = p THEN [tag |-> "Some", val |-> s] ELSE [tag |-> "None"]

StripPrefix(s, p) ==
    IF Len(s) >= 1 /\ s[1] = p THEN Some(Tail(s)) ELSE None

(***************************************************************************)
(* AuthCallbackResult and parse_token_from_request                         *)
(***************************************************************************)
Success(t) == [kind |-> "Success", val |-> t]
TwoFactor(t) == [kind |-> "TwoFactor", val |-> t]
Error(e) == [kind |-> "Error", val |-> e]

\* a loop that looks for token= in every parameter before it looks for
\* 2fa_token=
ScanParams_TokenFirst(params) ==
    LET toks == {i \in 1..Len(params) : params[i] # <<>> /\ params[i][1] = "token="}
        tfas == {i \in 1..Len(params) : params[i] # <<>> /\ params[i][1] = "2fa_token="}
        first(S) == CHOOSE i \in S : \A j \in S : i <= j
    IN  IF toks # {} THEN [tag |-> "Some", val |-> [kind |-> "Success", val |-> Tail(params[first(toks)])]]
        ELSE IF tfas # {} THEN [tag |-> "Some", val |-> [kind |-> "TwoFactor", val |-> Tail(params[first(tfas)])]]
        ELSE [tag |-> "None"]

\* a loop that only looks for token=
ScanParams_SkipTwoFactor(params) ==
    LET toks == {i \in 1..Len(params) : params[i] # <<>> /\ params[i][1] = "token="}
    IN  IF toks # {}
        THEN Some(Success(Tail(params[CHOOSE i \in toks : \A j \in toks : i <= j])))
        ELSE None

\* the loop over query_string.split('&'): the first parameter that starts
\* with token= or with 2fa_token= decides
RECURSIVE ScanParams(_)
ScanParams(params) ==
    IF params = <<>> THEN None
    ELSE LET t == StripPrefix(Head(params), "token=")
             f == StripPrefix(Head(params), "2fa_token=")
         IN  IF t.tag = "Some" THEN Some(Success(t.val))
             ELSE IF f.tag = "Some" THEN Some(TwoFactor(f.val))
             ELSE ScanParams(Tail(params))

\* a parser that takes the token from a request for any path
parse_token_from_request_AnyPath(request) ==
    LET first_line == FirstLine(request)
    IN  IF first_line.tag = "None" THEN None
        ELSE LET path_and_query == Nth(SplitWhitespace(first_line.val), 1)
             IN  IF path_and_query.tag = "None" THEN None
                 ELSE LET query_string == Nth(Split(path_and_query.val, "?"), 1)
                      IN  IF query_string.tag = "None" THEN None
                          ELSE ScanParams(Split(query_string.val, "&"))

parse_token_from_request(request) ==
    LET first_line == FirstLine(request)
    IN  IF first_line.tag = "None" THEN None
        ELSE IF ~Contains(first_line.val, "/auth/callback") THEN None
        ELSE LET path_and_query == Nth(SplitWhitespace(first_line.val), 1)
             IN  IF path_and_query.tag = "None" THEN None
                 ELSE LET query_string == Nth(Split(path_and_query.val, "?"), 1)
                      IN  IF query_string.tag = "None" THEN None
                          ELSE ScanParams(Split(query_string.val, "&"))

\* String::from_utf8_lossy(&buffer[..]): the bytes read followed by the
\* zero bytes that fill the rest of the 2048-byte buffer
BufferText(data) == data \o <<"NUL">>

(***************************************************************************)
(* parse_token_from_header                                                 *)
(***************************************************************************)
\* str::trim()
RECURSIVE TrimStart(_)
TrimStart(s) ==
    IF s # <<>> /\ IsWhitespace(Head(s)) THEN TrimStart(Tail(s)) ELSE s

RECURSIVE TrimEnd(_)
TrimEnd(s) ==
    IF s # <<>> /\ IsWhitespace(s[Len(s)]) THEN TrimEnd(SubSeq(s, 1, Len(s) - 1)) ELSE s

Trim(s) == TrimEnd(TrimStart(s))

\* String::is_empty()
IsEmpty_Never(s) == FALSE
IsEmpty(s) == s = <<>>

\* str::splitn(2, sep)
SplitN2(s, sep) ==
    LET i == IndexOf(s, sep, 1)
    IN  IF i = 0 THEN <<s>> ELSE <<SubSeq(s, 1, i - 1), SubSeq(s, i + 1, Len(s))>>

\* find_map over header_str.split(';'): the value of the first part whose
\* key is "token" and that has a value
RECURSIVE FindTokenPart(_)
FindTokenPart(parts) ==
    IF parts = <<>> THEN None
    ELSE LET key_val == SplitN2(Trim(Head(parts)), "=")
         IN  IF key_val[1] = <<"token">> /\ Len(key_val) = 2
             THEN Some(key_val[2])
             ELSE FindTokenPart(Tail(parts))

\* HeaderValue::to_str() fails on a byte outside visible ASCII
ToStrOk(header) == ~Contains(header, "BIN")

\* only the first Set-Cookie header of the response is looked at
parse_token_from_header(resp) ==
    IF resp.set_cookie = <<>> THEN None
    ELSE LET header == resp.set_cookie[1]
         IN  IF ~ToStrOk(header) THEN None
             ELSE FindTokenPart(Split(header, ";"))

(***************************************************************************)
(* Inputs                                                                  *)
(***************************************************************************)
QueryPieces == {"?", "&", "token=", "2fa_token=", "a"}

RECURSIVE SeqsUpTo(_, _)
SeqsUpTo(S, n) ==
    IF n = 0 THEN {<<>>}
    ELSE LET shorter == SeqsUpTo(S, n - 1)
         IN  shorter \cup {Append(s, x) : s \in {t \in shorter : Len(t) = n - 1}, x \in S}

Queries(n) == SeqsUpTo(QueryPieces, n)

\* a request line "GET <target> HTTP/1.1" followed by a header line
RequestLine(target) == <<"GET", " ">> \o target \o <<" ", "HTTP/1.1", "\n", "Host">>

\* request texts with a query part of at most n pieces: well-formed requests
\* for the callback path and for another path, requests cut off after the
\* target, an empty read, a lone word and a request with a leading line break
RequestsUpTo(n) ==
    {RequestLine(<<"/auth/callback">> \o q) : q \in Queries(n)}
    \cup {RequestLine(<<"/">> \o q) : q \in Queries(n - 1)}
    \cup {<<"GET", " ", "/auth/callback">> \o q : q \in Queries(n - 1)}
    \cup {<<>>, <<"GET">>, <<"\n">> \o RequestLine(<<"/auth/callback", "?", "token=", "a">>)}

\* what the one read of the accepted connection can return
Requests == RequestsUpTo(MaxQueryLen)

\* the texts parse_token_from_request is applied to on its own
ParseRequests == RequestsUpTo(MaxParseLen)

\* what the user can type at a text prompt
Typed == {<<>>, <<" ">>, <<"x">>, <<" ", "x", " ">>}

\* the Set-Cookie headers a response can carry
SetCookies ==
    { <<>>,
      << <<"token", "=", "jwt">> >>,
      << <<"sid", "=", "s", ";", " ", "token", "=", "jwt", ";", " ", "Path", "=", "/">> >>,
      << <<"token">> >>,
      << <<"sid", "=", "s">>, <<"token", "=", "jwt">> >>,
      << <<"token", "=", "jwt", "BIN">> >> }

\* a JSON field: absent, of another type, or the expected value
JsonFlag == {None, [tag |-> "Other"], Some(TRUE), Some(FALSE)}
JsonText(texts) == {None, [tag |-> "Other"]} \cup {Some(t) : t \in texts}
InvalidJson == [json |-> "invalid"]

\* answers of POST /auth/login
LoginResponses ==
    [ok : {TRUE}, set_cookie : SetCookies,
     body : {InvalidJson} \cup
            [json : {"object"}, tfa_required : JsonFlag,
             tfa_token : JsonText({<<"abc">>})]]
    \cup
    [ok : {FALSE}, set_cookie : {<<>>},
     body : {InvalidJson} \cup
            [json : {"object"}, message : JsonText({<<"m">>}),
             error_code : JsonText({<<"EMAIL_NOT_VERIFIED">>, <<"OTHER">>})]]

\* answers of POST /auth/2fa/authenticate
TwoFactorResponses ==
    [ok : {TRUE}, set_cookie : SetCookies, body : {InvalidJson}]
    \cup
    [ok : {FALSE}, set_cookie : {<<>>},
     body : {InvalidJson} \cup [json : {"object"}, message : JsonText({<<"m">>})]]

\* answers of POST /auth/2fa/setup
SetupResponses ==
    [ok : {FALSE}, body : {InvalidJson}]
    \cup
    [ok : {TRUE},
     body : {InvalidJson} \cup [json : {"object"}, secret : JsonText({<<"s1">>, <<"s2">>})]]

\* the elements of a JSON array: a text or a value of another type
JsonItems == {[tag |-> "Other"], Some(<<"r1">>), Some(<<"r2">>)}

\* answers of POST /auth/2fa/verify
VerifyResponses ==
    [ok : {TRUE},
     body : {InvalidJson} \cup
            [json : {"object"},
             recovery_codes : {None, [tag |-> "Other"]} \cup
                              {Some(a) : a \in SeqsUpTo(JsonItems, MaxCodes)}]]
    \cup
    [ok : {FALSE},
     body : {InvalidJson} \cup [json : {"object"}, message : JsonText({<<"m">>})]]

(***************************************************************************)
(* State                                                                   *)
(***************************************************************************)
VARIABLES
    cpc,              \* where the command's flow of control stands
    choice,           \* handle_login: the selected option
    result,           \* what the command ended with: "none", "ok" or an error
    wpc,              \* where the spawned listener task stands
    portOwner,        \* who holds 127.0.0.1:LOCAL_PORT: "free", "other", "worker"
    accepted,         \* connections the listener accepted
    conn,             \* the accepted connection: "none", "open", "shutdown", "closed"
    request,          \* the bytes the read returned
    readOk,           \* the read returned Ok
    callback_result,  \* parse_token_from_request(&request_str)
    pageWrites,       \* write_all calls of the confirmation page
    txState,          \* the sender: "none", "live", "used", "dropped"
    rxState,          \* the receiver: "none", "live", "used", "dropped"
    chan,             \* the value in the oneshot channel, if any
    sent,             \* values the worker passed to tx.send, in order
    recvs,            \* values the coordinator took from the channel
    rx_result,        \* handle_oauth_login: the local `result`
    aborted,          \* server_handle.abort() was called
    browser,          \* "none", "opened", "printed"
    elapsed,          \* seconds spent waiting on the channel
    email,            \* handle_password_login: the trimmed email
    password,         \* handle_password_login: the password as typed
    two_fa_token,     \* handle_2fa_authentication: its argument
    code,             \* handle_2fa_authentication: the trimmed code
    response,         \* handle_password_login: the answer of /auth/login
    tfa_response,     \* handle_2fa_authentication: the answer of /auth/2fa/authenticate
    posts,            \* requests sent to the server, in order
    loginCalls,       \* tokens handed to api::login, in order
    session,          \* tokens api::login stored
    exited,           \* the process has exited
    secret,           \* handle_2fa_setup: the secret the server sent
    verify_response,  \* handle_2fa_setup: the answer of /auth/2fa/verify
    output,           \* lines printed that the claims are about, in order
    arrived           \* connections made to the port while the listener held it

vars == <<cpc, choice, result, wpc, portOwner, accepted, conn, request, readOk,
          callback_result, pageWrites, txState, rxState, chan, sent, recvs,
          rx_result, aborted, browser, elapsed, email, password, two_fa_token,
          code, response, tfa_response, posts, loginCalls, session, exited,
          secret, verify_response, output, arrived>>

flowVars == <<email, password, two_fa_token, code, response, tfa_response, posts,
              loginCalls, session>>
workerVars == <<wpc, portOwner, accepted, conn, request, readOk, callback_result,
                pageWrites, txState, chan, sent>>
chanVars == <<txState, rxState, chan, sent, recvs>>
setupVars == <<secret, verify_response, output>>

\* nothing has run yet; another process may hold the port
InitFlow ==
    /\ cpc = "login"
    /\ choice = "none"
    /\ result = "none"
    /\ portOwner \in {"free", "other"}
    /\ accepted = 0
    /\ conn = "none"
    /\ readOk = FALSE
    /\ callback_result = None
    /\ pageWrites = 0
    /\ txState = "none"
    /\ rxState = "none"
    /\ chan = None
    /\ sent = <<>>
    /\ recvs = 0
    /\ rx_result = None
    /\ aborted = FALSE
    /\ browser = "none"
    /\ elapsed = 0
    /\ email = <<>>
    /\ password = <<>>
    /\ two_fa_token = <<>>
    /\ code = <<>>
    /\ response = None
    /\ tfa_response = None
    /\ posts = <<>>
    /\ loginCalls = <<>>
    /\ session = <<>>
    /\ exited = FALSE
    /\ secret = None
    /\ verify_response = None
    /\ output = <<>>
    /\ arrived = 0

Init ==
    /\ InitFlow
    /\ wpc = "unspawned"
    /\ request = <<>>

(***************************************************************************)
(* The listener task spawned by handle_oauth_login                         *)
(***************************************************************************)
\* the task's future is dropped (it returned, was aborted, or the runtime
\* shut down): the listener, the stream and an unused sender go with it
DropPort == IF portOwner = "worker" THEN "free" ELSE portOwner
DropConn == IF conn \in {"open", "shutdown"} THEN "closed" ELSE conn
DropTx_Leak == txState
DropTx == IF txState = "live" THEN "dropped" ELSE txState

\* the value sent when the bind fails
PortError_Other == Error("bind")
PortError == Error("port")

\* TcpListener::bind: on failure send Error("port") and return; a send to a
\* dropped receiver fails and the value is lost
WorkerBind ==
    /\ wpc = "bind" /\ ~exited
    /\ IF portOwner = "free"
       THEN /\ portOwner' = "worker"
            /\ wpc' = "accept"
            /\ UNCHANGED <<txState, chan, sent>>
       ELSE /\ wpc' = "done"
            /\ txState' = "used"
            /\ sent' = Append(sent, PortError)
            /\ chan' = IF rxState = "live" THEN Some(PortError) ELSE chan
            /\ UNCHANGED portOwner
    /\ UNCHANGED <<cpc, choice, result, accepted, conn, request, readOk,
                   callback_result, pageWrites, rxState, recvs, rx_result,
                   aborted, browser, elapsed, flowVars, exited, setupVars, arrived>>

\* a client (the browser, or anything else on the machine) connects to the
\* port while the listener is bound; the connection waits to be accepted
Connect ==
    /\ portOwner = "worker" /\ ~exited
    /\ arrived < MaxConns
    /\ arrived' = arrived + 1
    /\ UNCHANGED <<cpc, choice, result, workerVars, rxState, recvs, rx_result,
                   aborted, browser, elapsed, flowVars, exited, setupVars>>

\* listener.accept(): a connection that waits is taken, or accept fails and
\* the task ends
WorkerAccept ==
    /\ wpc = "accept" /\ ~exited
    /\ \/ /\ arrived > accepted
          /\ accepted' = accepted + 1
          /\ conn' = "open"
          /\ wpc' = "read"
          /\ UNCHANGED <<portOwner, txState>>
       \/ /\ wpc' = "done"
          /\ portOwner' = DropPort
          /\ txState' = DropTx
          /\ UNCHANGED <<accepted, conn>>
    /\ UNCHANGED <<cpc, choice, result, request, readOk, callback_result,
                   pageWrites, rxState, chan, sent, recvs, rx_result, aborted,
                   browser, elapsed, flowVars, exited, setupVars, arrived>>

\* a read after which the outcome is sent before the page is written
WorkerRead_SendsBeforePage ==
    /\ wpc = "read" /\ ~exited
    /\ \/ \E data \in Requests :
             /\ request' = data
             /\ readOk' = TRUE
             /\ callback_result' = parse_token_from_request(BufferText(data))
             /\ wpc' = "send"
             /\ UNCHANGED <<portOwner, conn, txState>>
       \/ /\ wpc' = "done"
          /\ portOwner' = DropPort
          /\ conn' = DropConn
          /\ txState' = DropTx
          /\ UNCHANGED <<request, readOk, callback_result>>
    /\ UNCHANGED <<cpc, choice, result, accepted, pageWrites, rxState, chan,
                   sent, recvs, rx_result, aborted, browser, elapsed,
                   flowVars, exited, setupVars, arrived>>

\* stream.read(&mut buffer): on Ok the request is parsed; on Err the task ends
WorkerRead ==
    /\ wpc = "read" /\ ~exited
    /\ \/ \E data \in Requests :
             /\ request' = data
             /\ readOk' = TRUE
             /\ callback_result' = parse_token_from_request(BufferText(data))
             /\ wpc' = "write"
             /\ UNCHANGED <<portOwner, conn, txState>>
       \/ /\ wpc' = "done"
          /\ portOwner' = DropPort
          /\ conn' = DropConn
          /\ txState' = DropTx
          /\ UNCHANGED <<request, readOk, callback_result>>
    /\ UNCHANGED <<cpc, choice, result, accepted, pageWrites, rxState, chan,
                   sent, recvs, rx_result, aborted, browser, elapsed,
                   flowVars, exited, setupVars, arrived>>

\* a write of the page that is skipped when nothing was parsed
WorkerWrite_OnlyOnOutcome ==
    /\ wpc = "write" /\ ~exited
    /\ pageWrites' = IF callback_result.tag = "Some" THEN pageWrites + 1 ELSE pageWrites
    /\ wpc' = "shutdown"
    /\ UNCHANGED <<cpc, choice, result, portOwner, accepted, conn, request,
                   readOk, callback_result, txState, rxState, chan, sent,
                   recvs, rx_result, aborted, browser, elapsed, flowVars, exited, setupVars, arrived>>

\* stream.write_all(response): the result is ignored
WorkerWrite ==
    /\ wpc = "write" /\ ~exited
    /\ pageWrites' = pageWrites + 1
    /\ wpc' = "shutdown"
    /\ UNCHANGED <<cpc, choice, result, portOwner, accepted, conn, request,
                   readOk, callback_result, txState, rxState, chan, sent,
                   recvs, rx_result, aborted, browser, elapsed, flowVars, exited, setupVars, arrived>>

\* stream.shutdown(): the result is ignored
WorkerShutdown ==
    /\ wpc = "shutdown" /\ ~exited
    /\ conn' = "shutdown"
    /\ wpc' = "send"
    /\ UNCHANGED <<cpc, choice, result, portOwner, accepted, request, readOk,
                   callback_result, pageWrites, txState, rxState, chan, sent,
                   recvs, rx_result, aborted, browser, elapsed, flowVars, exited, setupVars, arrived>>

\* a task that goes back to accept after it served a connection
WorkerSend_AcceptsAgain ==
    /\ wpc = "send" /\ ~exited
    /\ IF callback_result.tag = "Some"
       THEN /\ txState' = "used"
            /\ sent' = Append(sent, callback_result.val)
            /\ chan' = IF rxState = "live" THEN callback_result ELSE chan
       ELSE /\ txState' = DropTx
            /\ UNCHANGED <<chan, sent>>
    /\ wpc' = "accept"
    /\ UNCHANGED portOwner
    /\ conn' = DropConn
    /\ UNCHANGED <<cpc, choice, result, accepted, request, readOk,
                   callback_result, pageWrites, rxState, recvs, rx_result,
                   aborted, browser, elapsed, flowVars, exited, setupVars, arrived>>

\* a task that sends an Error value when nothing was parsed
WorkerSend_ErrorWhenNothingParsed ==
    /\ wpc = "send" /\ ~exited
    /\ IF callback_result.tag = "Some"
       THEN /\ txState' = "used"
            /\ sent' = Append(sent, callback_result.val)
            /\ chan' = IF rxState = "live" THEN callback_result ELSE chan
       ELSE /\ txState' = "used"
            /\ sent' = Append(sent, Error("none"))
            /\ chan' = IF rxState = "live" THEN Some(Error("none")) ELSE chan
    /\ wpc' = "done"
    /\ portOwner' = DropPort
    /\ conn' = DropConn
    /\ UNCHANGED <<cpc, choice, result, accepted, request, readOk,
                   callback_result, pageWrites, rxState, recvs, rx_result,
                   aborted, browser, elapsed, flowVars, exited, setupVars, arrived>>

\* if let Some(result) = callback_result { tx.send(result) }, then the task
\* returns; a send to a dropped receiver fails and the value is lost
WorkerSend ==
    /\ wpc = "send" /\ ~exited
    /\ IF callback_result.tag = "Some"
       THEN /\ txState' = "used"
            /\ sent' = Append(sent, callback_result.val)
            /\ chan' = IF rxState = "live" THEN callback_result ELSE chan
       ELSE /\ txState' = DropTx
            /\ UNCHANGED <<chan, sent>>
    /\ wpc' = "done"
    /\ portOwner' = DropPort
    /\ conn' = DropConn
    /\ UNCHANGED <<cpc, choice, result, accepted, request, readOk,
                   callback_result, pageWrites, rxState, recvs, rx_result,
                   aborted, browser, elapsed, flowVars, exited, setupVars, arrived>>

\* the worker waits for an outside event or has nothing left to do
WorkerIdle == wpc \in {"accept", "read", "done", "aborted"}

(***************************************************************************)
(* handle_login and handle_oauth_login                                     *)
(***************************************************************************)
\* the command returns to main with Ok(()) ("ok") or with an error
Return(r) == result' = r /\ cpc' = "returned"
\* bail! or `?`
Fail(e) == Return(e)

\* Select::new(..).prompt()?: the option chosen, or the prompt is cancelled
HandleLogin ==
    /\ cpc = "login"
    /\ \/ \E c \in {"oauth", "password", "register"} :
             /\ choice' = c
             /\ cpc' = CASE c = "oauth" -> "oauth_start"
                         [] c = "password" -> "pw_email"
                         [] c = "register" -> "reg_prompt"
             /\ UNCHANGED result
       \/ Fail("cancelled") /\ UNCHANGED choice
    /\ UNCHANGED <<workerVars, rxState, recvs, rx_result, aborted, browser,
                   elapsed, flowVars, exited, setupVars, arrived>>

\* Settings::load()?, oneshot::channel(), tokio::spawn(..)
OAuthSpawn ==
    /\ cpc = "oauth_start"
    /\ \/ /\ Fail("settings")
          /\ UNCHANGED <<wpc, txState, rxState>>
       \/ /\ wpc' = "bind"
          /\ txState' = "live"
          /\ rxState' = "live"
          /\ cpc' = "open_browser"
          /\ UNCHANGED result
    /\ UNCHANGED <<choice, portOwner, accepted, conn, request, readOk,
                   callback_result, pageWrites, chan, sent, recvs, rx_result,
                   aborted, browser, elapsed, flowVars, exited, setupVars, arrived>>

\* a launch whose failure ends the attempt
OAuthOpenBrowser_FailureIsFatal ==
    /\ cpc = "open_browser"
    /\ \/ browser' = "opened" /\ cpc' = "await" /\ UNCHANGED result
       \/ browser' = "printed" /\ Fail("browser")
    /\ UNCHANGED <<choice, workerVars, rxState, recvs, rx_result,
                   aborted, elapsed, flowVars, exited, setupVars, arrived>>

\* a launch that waits until the listener task has tried to bind the port
OAuthOpenBrowser_WaitsForBind ==
    /\ cpc = "open_browser"
    /\ wpc # "bind"
    /\ browser' \in {"opened", "printed"}
    /\ cpc' = "await"
    /\ UNCHANGED <<choice, result, workerVars, rxState, recvs, rx_result,
                   aborted, elapsed, flowVars, exited, setupVars, arrived>>

\* opener::open(&login_url): on failure the URL is printed
OAuthOpenBrowser ==
    /\ cpc = "open_browser"
    /\ browser' \in {"opened", "printed"}
    /\ cpc' = "await"
    /\ UNCHANGED <<choice, result, workerVars, rxState, recvs, rx_result,
                   aborted, elapsed, flowVars, exited, setupVars, arrived>>

\* a clock that the deadline does not stop
Tick_PastDeadline ==
    /\ cpc = "await" /\ ~exited
    /\ elapsed <= TIMEOUT_SECS
    /\ wpc \in {"accept", "read", "done", "aborted"}
    /\ chan = None /\ txState # "dropped"
    /\ elapsed' = elapsed + TickSecs
    /\ UNCHANGED <<cpc, choice, result, workerVars, rxState, recvs, rx_result,
                   aborted, browser, flowVars, exited, setupVars, arrived>>

\* time passes while the coordinator waits and nothing in the program is
\* ready to run; the timer of the timeout fires at the deadline, so the
\* wait does not see a later time
Tick ==
    /\ cpc = "await" /\ ~exited
    /\ elapsed < TIMEOUT_SECS
    /\ wpc \in {"accept", "read", "done", "aborted"}
    /\ chan = None /\ txState # "dropped"
    /\ elapsed' = IF elapsed + TickSecs > TIMEOUT_SECS
                  THEN TIMEOUT_SECS ELSE elapsed + TickSecs
    /\ UNCHANGED <<cpc, choice, result, workerVars, rxState, recvs, rx_result,
                   aborted, browser, flowVars, exited, setupVars, arrived>>

\* a wait that hands the received value to the match without server_handle.abort()
OAuthRecv_SkipsAbort ==
    /\ cpc = "await"
    /\ chan.tag = "Some"
    /\ rx_result' = chan
    /\ chan' = None
    /\ rxState' = "used"
    /\ recvs' = recvs + 1
    /\ cpc' = "classify"
    /\ UNCHANGED <<choice, result, wpc, portOwner, accepted, conn, request,
                   readOk, callback_result, pageWrites, txState, sent, aborted,
                   browser, elapsed, flowVars, exited, setupVars, arrived>>

\* timeout(120 s, rx).await resolves with the value sent
OAuthRecv ==
    /\ cpc = "await"
    /\ chan.tag = "Some"
    /\ rx_result' = chan
    /\ chan' = None
    /\ rxState' = "used"
    /\ recvs' = recvs + 1
    /\ cpc' = "abort"
    /\ UNCHANGED <<choice, result, wpc, portOwner, accepted, conn, request,
                   readOk, callback_result, pageWrites, txState, sent, aborted,
                   browser, elapsed, flowVars, exited, setupVars, arrived>>

\* timeout(120 s, rx).await resolves with RecvError: the sender was dropped
\* without a value; the second `?` returns the error
OAuthRecvClosed ==
    /\ cpc = "await"
    /\ chan = None /\ txState = "dropped"
    /\ Fail("closed")
    /\ rxState' = "dropped"
    /\ UNCHANGED <<choice, workerVars, recvs, rx_result, aborted, browser,
                   elapsed, flowVars, exited, setupVars, arrived>>

\* timeout(120 s, rx).await resolves with Elapsed; the first `?` returns
\* "Login timed out" and server_handle.abort() is not reached
OAuthTimeout ==
    /\ cpc = "await"
    /\ chan = None /\ txState # "dropped"
    /\ elapsed >= TIMEOUT_SECS
    /\ Fail("timeout")
    /\ rxState' = "dropped"
    /\ UNCHANGED <<choice, workerVars, recvs, rx_result, aborted, browser,
                   elapsed, flowVars, exited, setupVars, arrived>>

\* server_handle.abort(): cancels the task unless it has finished
OAuthAbort ==
    /\ cpc = "abort"
    /\ aborted' = TRUE
    /\ IF wpc = "done"
       THEN UNCHANGED <<wpc, portOwner, conn, txState>>
       ELSE /\ wpc' = "aborted"
            /\ portOwner' = DropPort
            /\ conn' = DropConn
            /\ txState' = DropTx
    /\ cpc' = "classify"
    /\ UNCHANGED <<choice, result, accepted, request, readOk, callback_result,
                   pageWrites, rxState, chan, sent, recvs, rx_result, browser,
                   elapsed, flowVars, exited, setupVars, arrived>>

\* a match whose Success branch reports success whatever api::login returns
OAuthClassify_IgnoresPersistError ==
    /\ cpc = "classify"
    /\ LET r == rx_result.val
       IN  CASE r.kind = "Error" /\ r.val = "port" ->
                  /\ Fail("port")
                  /\ UNCHANGED <<two_fa_token, loginCalls, session>>
             [] r.kind = "Error" /\ r.val # "port" ->
                  /\ Fail("login_failed")
                  /\ UNCHANGED <<two_fa_token, loginCalls, session>>
             [] r.kind = "Success" ->
                  /\ loginCalls' = Append(loginCalls, r.val)
                  /\ \/ session' = Append(session, r.val) /\ Return("ok")
                     \/ UNCHANGED session /\ Return("ok")
                  /\ UNCHANGED two_fa_token
             [] r.kind = "TwoFactor" ->
                  /\ two_fa_token' = r.val
                  /\ cpc' = "tfa_prompt"
                  /\ UNCHANGED <<result, loginCalls, session>>
    /\ UNCHANGED <<choice, workerVars, rxState, recvs, rx_result, aborted,
                   browser, elapsed, email, password, code, response, tfa_response, posts,
                   exited, setupVars, arrived>>

\* a match whose Success branch hands over the token with a prefix
OAuthClassify_ChangesToken ==
    /\ cpc = "classify"
    /\ LET r == rx_result.val
       IN  CASE r.kind = "Error" /\ r.val = "port" ->
                  /\ Fail("port")
                  /\ UNCHANGED <<two_fa_token, loginCalls, session>>
             [] r.kind = "Error" /\ r.val # "port" ->
                  /\ Fail("login_failed")
                  /\ UNCHANGED <<two_fa_token, loginCalls, session>>
             [] r.kind = "Success" ->
                  /\ loginCalls' = Append(loginCalls, <<"Bearer">> \o r.val)
                  /\ \/ session' = Append(session, <<"Bearer">> \o r.val) /\ Return("ok")
                     \/ UNCHANGED session /\ Fail("persist")
                  /\ UNCHANGED two_fa_token
             [] r.kind = "TwoFactor" ->
                  /\ two_fa_token' = r.val
                  /\ cpc' = "tfa_prompt"
                  /\ UNCHANGED <<result, loginCalls, session>>
    /\ UNCHANGED <<choice, workerVars, rxState, recvs, rx_result, aborted,
                   browser, elapsed, email, password, code, response, tfa_response, posts,
                   exited, setupVars, arrived>>

\* match result { .. }
OAuthClassify ==
    /\ cpc = "classify"
    /\ LET r == rx_result.val
       IN  CASE r.kind = "Error" /\ r.val = "port" ->
                  /\ Fail("port")
                  /\ UNCHANGED <<two_fa_token, loginCalls, session>>
             [] r.kind = "Error" /\ r.val # "port" ->
                  /\ Fail("login_failed")
                  /\ UNCHANGED <<two_fa_token, loginCalls, session>>
             [] r.kind = "Success" ->
                  /\ loginCalls' = Append(loginCalls, r.val)
                  /\ \/ session' = Append(session, r.val) /\ Return("ok")
                     \/ UNCHANGED session /\ Fail("persist")
                  /\ UNCHANGED two_fa_token
             [] r.kind = "TwoFactor" ->
                  /\ two_fa_token' = r.val
                  /\ cpc' = "tfa_prompt"
                  /\ UNCHANGED <<result, loginCalls, session>>
    /\ UNCHANGED <<choice, workerVars, rxState, recvs, rx_result, aborted,
                   browser, elapsed, email, password, code, response, tfa_response, posts,
                   exited, setupVars, arrived>>

(***************************************************************************)
(* handle_password_login                                                   *)
(***************************************************************************)
\* reqwest::Response::from(http::Response::builder().status(status).body(..)):
\* the status and the body of the login response, and no header
TempResponse(resp) == [ok |-> resp.ok, set_cookie |-> <<>>, body |-> resp.body]

\* Settings::load()?, the email prompt, trim, the empty check
PasswordEmail ==
    /\ cpc = "pw_email"
    /\ \/ Fail("settings") /\ UNCHANGED email
       \/ Fail("cancelled") /\ UNCHANGED email
       \/ \E typed \in Typed :
             IF IsEmpty(Trim(typed))
             THEN Fail("validation") /\ UNCHANGED email
             ELSE email' = Trim(typed) /\ cpc' = "pw_password" /\ UNCHANGED result
    /\ UNCHANGED <<choice, workerVars, rxState, recvs, rx_result, aborted,
                   browser, elapsed, password, two_fa_token, code, response, tfa_response,
                   posts, loginCalls, session, exited, setupVars, arrived>>

\* the password prompt: the text is taken as typed
PasswordPrompt ==
    /\ cpc = "pw_password"
    /\ \/ Fail("cancelled") /\ UNCHANGED password
       \/ \E typed \in Typed :
             password' = typed /\ cpc' = "pw_post" /\ UNCHANGED result
    /\ UNCHANGED <<choice, workerVars, rxState, recvs, rx_result, aborted,
                   browser, elapsed, email, two_fa_token, code, response, tfa_response, posts,
                   loginCalls, session, exited, setupVars, arrived>>

\* client.post(/auth/login).json({email, password}).send().await?, then
\* response.text().await?
PasswordPost ==
    /\ cpc = "pw_post"
    /\ posts' = Append(posts, [endpoint |-> "/auth/login",
                               body |-> [email |-> email, password |-> password]])
    /\ \/ Fail("network") /\ UNCHANGED response
       \/ \E resp \in LoginResponses :
             response' = Some(resp) /\ cpc' = "pw_response" /\ UNCHANGED result
    /\ UNCHANGED <<choice, workerVars, rxState, recvs, rx_result, aborted,
                   browser, elapsed, email, password, two_fa_token, code,
                   tfa_response, loginCalls, session, exited, setupVars, arrived>>

\* body.get("2fa_required").and_then(|v| v.as_bool()).is_some()
Has2faFlag_Never(body) == FALSE
Has2faFlag(body) == body.tfa_required.tag = "Some"

\* the classification of the login response
PasswordResponse ==
    /\ cpc = "pw_response"
    /\ LET resp == response.val
           body == resp.body
       IN  IF resp.ok
           THEN IF body.json = "invalid"
                THEN Fail("bad_json") /\ UNCHANGED <<two_fa_token, loginCalls, session>>
                ELSE IF Has2faFlag(body)
                THEN IF body.tfa_token.tag = "Some"
                     THEN /\ two_fa_token' = body.tfa_token.val
                          /\ cpc' = "tfa_prompt"
                          /\ UNCHANGED <<result, loginCalls, session>>
                     ELSE Fail("no_2fa_token")
                          /\ UNCHANGED <<two_fa_token, loginCalls, session>>
                ELSE LET token == parse_token_from_header(TempResponse(resp))
                     IN  IF token.tag = "None"
                         THEN Fail("no_token")
                              /\ UNCHANGED <<two_fa_token, loginCalls, session>>
                         ELSE /\ loginCalls' = Append(loginCalls, token.val)
                              /\ \/ session' = Append(session, token.val) /\ Return("ok")
                                 \/ UNCHANGED session /\ Fail("persist")
                              /\ UNCHANGED two_fa_token
           ELSE IF body.json = "object" /\ body.error_code = Some(<<"EMAIL_NOT_VERIFIED">>)
                THEN /\ cpc' = "pw_confirm"
                     /\ UNCHANGED <<result, two_fa_token, loginCalls, session>>
                ELSE Fail("login_failed")
                     /\ UNCHANGED <<two_fa_token, loginCalls, session>>
    /\ UNCHANGED <<choice, workerVars, rxState, recvs, rx_result, aborted,
                   browser, elapsed, email, password, code, response, tfa_response, posts,
                   exited, setupVars, arrived>>

\* the Confirm prompt of the resend offer
PasswordConfirmResend ==
    /\ cpc = "pw_confirm"
    /\ \/ Fail("cancelled")
       \/ Fail("not_verified")
       \/ cpc' = "pw_resend" /\ UNCHANGED result
    /\ UNCHANGED <<choice, workerVars, rxState, recvs, rx_result, aborted,
                   browser, elapsed, flowVars, exited, setupVars, arrived>>

\* a resend whose success ends the attempt with Ok
PasswordResend_SuccessEndsOk ==
    /\ cpc = "pw_resend"
    /\ \/ Fail("settings") /\ UNCHANGED <<posts, output>>
       \/ /\ posts' = Append(posts, [endpoint |-> "/auth/resend-verification",
                                     body |-> [email |-> email]])
          /\ \/ Fail("network") /\ UNCHANGED output
             \/ output' = Append(output, <<"resend_sent">>) /\ Return("ok")
             \/ output' = Append(output, <<"resend_failed">>) /\ Fail("not_verified")
    /\ UNCHANGED <<choice, workerVars, rxState, recvs, rx_result, aborted,
                   browser, elapsed, email, password, two_fa_token, code,
                   response, tfa_response, loginCalls, session, exited,
                   secret, verify_response, arrived>>

\* handle_resend_verification(&email).await?: Settings::load()?, the POST,
\* a line that tells whether the status was a success; then
\* bail!("Please verify ..")
PasswordResend ==
    /\ cpc = "pw_resend"
    /\ \/ Fail("settings") /\ UNCHANGED <<posts, output>>
       \/ /\ posts' = Append(posts, [endpoint |-> "/auth/resend-verification",
                                     body |-> [email |-> email]])
          /\ \/ Fail("network") /\ UNCHANGED output
             \/ \E ok \in BOOLEAN :
                   /\ output' = Append(output, IF ok THEN <<"resend_sent">>
                                                ELSE <<"resend_failed">>)
                   /\ Fail("not_verified")
    /\ UNCHANGED <<choice, workerVars, rxState, recvs, rx_result, aborted,
                   browser, elapsed, email, password, two_fa_token, code,
                   response, tfa_response, loginCalls, session, exited,
                   secret, verify_response, arrived>>

(***************************************************************************)
(* handle_2fa_authentication                                               *)
(***************************************************************************)
\* a code prompt without the empty check
TwoFactorPrompt_NoCheck ==
    /\ cpc = "tfa_prompt"
    /\ \/ Fail("settings") /\ UNCHANGED code
       \/ Fail("cancelled") /\ UNCHANGED code
       \/ \E typed \in Typed :
             code' = Trim(typed) /\ cpc' = "tfa_post" /\ UNCHANGED result
    /\ UNCHANGED <<choice, workerVars, rxState, recvs, rx_result, aborted,
                   browser, elapsed, email, password, two_fa_token, response, tfa_response,
                   posts, loginCalls, session, exited, setupVars, arrived>>

\* Settings::load()?, the code prompt, trim, the empty check
TwoFactorPrompt ==
    /\ cpc = "tfa_prompt"
    /\ \/ Fail("settings") /\ UNCHANGED code
       \/ Fail("cancelled") /\ UNCHANGED code
       \/ \E typed \in Typed :
             IF IsEmpty(Trim(typed))
             THEN Fail("validation") /\ UNCHANGED code
             ELSE code' = Trim(typed) /\ cpc' = "tfa_post" /\ UNCHANGED result
    /\ UNCHANGED <<choice, workerVars, rxState, recvs, rx_result, aborted,
                   browser, elapsed, email, password, two_fa_token, response, tfa_response,
                   posts, loginCalls, session, exited, setupVars, arrived>>

\* an authenticate request that carries another token
TwoFactorPost_OtherToken ==
    /\ cpc = "tfa_post"
    /\ posts' = Append(posts, [endpoint |-> "/auth/2fa/authenticate",
                               body |-> [tfa_token |-> <<"other">>, code |-> code]])
    /\ \/ Fail("network") /\ UNCHANGED tfa_response
       \/ \E resp \in TwoFactorResponses :
             tfa_response' = Some(resp) /\ cpc' = "tfa_response" /\ UNCHANGED result
    /\ UNCHANGED <<choice, workerVars, rxState, recvs, rx_result, aborted,
                   browser, elapsed, email, password, two_fa_token, code,
                   response, loginCalls, session, exited, setupVars, arrived>>

\* client.post(/auth/2fa/authenticate).json({2fa_token, code}).send().await?
TwoFactorPost ==
    /\ cpc = "tfa_post"
    /\ posts' = Append(posts, [endpoint |-> "/auth/2fa/authenticate",
                               body |-> [tfa_token |-> two_fa_token, code |-> code]])
    /\ \/ Fail("network") /\ UNCHANGED tfa_response
       \/ \E resp \in TwoFactorResponses :
             tfa_response' = Some(resp) /\ cpc' = "tfa_response" /\ UNCHANGED result
    /\ UNCHANGED <<choice, workerVars, rxState, recvs, rx_result, aborted,
                   browser, elapsed, email, password, two_fa_token, code,
                   response, loginCalls, session, exited, setupVars, arrived>>

\* error_body["message"].as_str().unwrap_or(default): the body that is no
\* JSON counts as null
ErrorMessage(body, default) ==
    IF body.json = "object" /\ body.message.tag = "Some"
    THEN body.message.val ELSE default

\* a classification that commits a session on a non-success answer
TwoFactorResponse_CommitsOnFailure ==
    /\ cpc = "tfa_response"
    /\ loginCalls' = Append(loginCalls, <<"jwt">>)
    /\ session' = Append(session, <<"jwt">>)
    /\ Return("ok")
    /\ UNCHANGED <<choice, workerVars, rxState, recvs, rx_result, aborted,
                   browser, elapsed, email, password, two_fa_token, code,
                   response, tfa_response, posts, exited, setupVars, arrived>>

\* a classification that asks for the code again after a non-success answer
TwoFactorResponse_RetriesOnFailure ==
    /\ cpc = "tfa_response"
    /\ IF tfa_response.val.ok
       THEN Fail("no_token")
       ELSE cpc' = "tfa_prompt" /\ UNCHANGED result
    /\ UNCHANGED <<choice, workerVars, rxState, recvs, rx_result, aborted,
                   browser, elapsed, flowVars, exited, setupVars, arrived>>

\* the classification of the authenticate response; on a non-success
\* status the flow ends with "2FA authentication failed: <message>", the
\* text main prints
TwoFactorResponse ==
    /\ cpc = "tfa_response"
    /\ LET resp == tfa_response.val
       IN  IF resp.ok
           THEN LET token == parse_token_from_header(resp)
                IN  IF token.tag = "None"
                    THEN Fail("no_token") /\ UNCHANGED <<loginCalls, session, output>>
                    ELSE /\ loginCalls' = Append(loginCalls, token.val)
                         /\ \/ session' = Append(session, token.val) /\ Return("ok")
                            \/ UNCHANGED session /\ Fail("persist")
                         /\ UNCHANGED output
           ELSE /\ Fail("tfa_failed")
                /\ output' = Append(output, <<"2FA authentication failed",
                                              ErrorMessage(resp.body, <<"Invalid 2FA code.">>)>>)
                /\ UNCHANGED <<loginCalls, session>>
    /\ UNCHANGED <<choice, workerVars, rxState, recvs, rx_result, aborted,
                   browser, elapsed, email, password, two_fa_token, code,
                   response, tfa_response, posts, exited, secret, verify_response, arrived>>

(***************************************************************************)
(* handle_register                                                         *)
(***************************************************************************)
\* a registration whose success stores a session
HandleRegister_LogsIn ==
    /\ cpc = "reg_prompt"
    /\ \/ Fail("settings") /\ UNCHANGED <<posts, loginCalls, session>>
       \/ Fail("cancelled") /\ UNCHANGED <<posts, loginCalls, session>>
       \/ Fail("validation") /\ UNCHANGED <<posts, loginCalls, session>>
       \/ /\ posts' = Append(posts, [endpoint |-> "/auth/register", body |-> <<>>])
          /\ \/ Fail("network") /\ UNCHANGED <<loginCalls, session>>
             \/ /\ Return("ok")
                /\ loginCalls' = Append(loginCalls, <<>>)
                /\ session' = Append(session, <<>>)
             \/ Fail("register_failed") /\ UNCHANGED <<loginCalls, session>>
    /\ UNCHANGED <<choice, workerVars, rxState, recvs, rx_result, aborted,
                   browser, elapsed, email, password, two_fa_token, code,
                   response, tfa_response, exited, setupVars, arrived>>

\* the three prompts with their checks, POST /auth/register and its answer
HandleRegister ==
    /\ cpc = "reg_prompt"
    /\ \/ Fail("settings") /\ UNCHANGED posts
       \/ Fail("cancelled") /\ UNCHANGED posts
       \/ Fail("validation") /\ UNCHANGED posts
       \/ /\ posts' = Append(posts, [endpoint |-> "/auth/register", body |-> <<>>])
          /\ \/ Fail("network")
             \/ Return("ok")
             \/ Fail("register_failed")
    /\ UNCHANGED <<choice, workerVars, rxState, recvs, rx_result, aborted,
                   browser, elapsed, email, password, two_fa_token, code,
                   response, tfa_response, loginCalls, session, exited, setupVars, arrived>>

(***************************************************************************)
(* main                                                                    *)
(***************************************************************************)
\* run() has returned: main prints the error, returns, and the runtime is
\* shut down, which drops every task still alive
ProcessExit ==
    /\ cpc = "returned" /\ ~exited
    /\ exited' = TRUE
    /\ IF wpc \in {"unspawned", "done", "aborted"}
       THEN UNCHANGED <<wpc, portOwner, conn, txState>>
       ELSE /\ wpc' = "aborted"
            /\ portOwner' = DropPort
            /\ conn' = DropConn
            /\ txState' = DropTx
    /\ UNCHANGED <<cpc, choice, result, accepted, request, readOk,
                   callback_result, pageWrites, rxState, chan, sent, recvs,
                   rx_result, aborted, browser, elapsed, flowVars, setupVars, arrived>>

Worker ==
    \/ WorkerBind
    \/ WorkerAccept
    \/ WorkerRead
    \/ WorkerWrite
    \/ WorkerShutdown
    \/ WorkerSend

Next ==
    \/ HandleLogin
    \/ OAuthSpawn
    \/ OAuthOpenBrowser
    \/ Tick
    \/ OAuthRecv
    \/ OAuthRecvClosed
    \/ OAuthTimeout
    \/ OAuthAbort
    \/ OAuthClassify
    \/ PasswordEmail
    \/ PasswordPrompt
    \/ PasswordPost
    \/ PasswordResponse
    \/ PasswordConfirmResend
    \/ PasswordResend
    \/ TwoFactorPrompt
    \/ TwoFactorPost
    \/ TwoFactorResponse
    \/ HandleRegister
    \/ ProcessExit
    \/ Worker
    \/ Connect

Spec == Init /\ [][Next]_vars

\* the steps of handle_oauth_login from the wait on
CoordinatorStep ==
    \/ OAuthRecv
    \/ OAuthRecvClosed
    \/ OAuthTimeout
    \/ OAuthAbort
    \/ OAuthClassify

\* the steps of the listener task that wait for nothing outside the program
WorkerStep ==
    \/ WorkerBind
    \/ WorkerWrite
    \/ WorkerShutdown
    \/ WorkerSend

\* the runtime runs a task that is ready and its timer advances.  Nothing
\* is assumed about the browser, the user or the server: a connection, the
\* bytes of a request, the answer to a prompt or to a request may never
\* arrive.
Fairness ==
    /\ WF_vars(CoordinatorStep)
    /\ WF_vars(WorkerStep)
    /\ WF_vars(Tick)

FairSpec == Spec /\ Fairness

(***************************************************************************)
(* handle_2fa_setup, the command `2fa setup`                               *)
(***************************************************************************)
\* the command starts in handle_2fa_setup; nothing else has run
InitSetup ==
    /\ cpc = "setup_start"
    /\ choice = "none"
    /\ result = "none"
    /\ wpc = "unspawned"
    /\ portOwner \in {"free", "other"}
    /\ accepted = 0
    /\ conn = "none"
    /\ request = <<>>
    /\ readOk = FALSE
    /\ callback_result = None
    /\ pageWrites = 0
    /\ txState = "none"
    /\ rxState = "none"
    /\ chan = None
    /\ sent = <<>>
    /\ recvs = 0
    /\ rx_result = None
    /\ aborted = FALSE
    /\ browser = "none"
    /\ elapsed = 0
    /\ email = <<>>
    /\ password = <<>>
    /\ two_fa_token = <<>>
    /\ code = <<>>
    /\ response = None
    /\ tfa_response = None
    /\ posts = <<>>
    /\ loginCalls = <<>>
    /\ session = <<>>
    /\ exited = FALSE
    /\ secret = None
    /\ verify_response = None
    /\ output = <<>>
    /\ arrived = 0

\* what handle_2fa_setup leaves alone
loginVars == <<choice, workerVars, rxState, recvs, rx_result, aborted, browser,
               elapsed, email, password, two_fa_token, tfa_response, loginCalls,
               session, exited, arrived>>

\* Settings::load()?, api::get_api_client()?, POST /auth/2fa/setup
SetupStart ==
    /\ cpc = "setup_start"
    /\ \/ Fail("settings") /\ UNCHANGED <<posts, response>>
       \/ Fail("client") /\ UNCHANGED <<posts, response>>
       \/ /\ posts' = Append(posts, [endpoint |-> "/auth/2fa/setup", body |-> <<>>])
          /\ \/ Fail("network") /\ UNCHANGED response
             \/ \E resp \in SetupResponses :
                   response' = Some(resp) /\ cpc' = "setup_response" /\ UNCHANGED result
    /\ UNCHANGED <<loginVars, code, secret, verify_response, output>>

\* the status check, response.json()?, setup_data["secret"].as_str(), and
\* the instructions with the secret
SetupResponse ==
    /\ cpc = "setup_response"
    /\ LET resp == response.val
       IN  IF ~resp.ok
           THEN Fail("setup_failed") /\ UNCHANGED <<secret, output>>
           ELSE IF resp.body.json = "invalid"
           THEN Fail("bad_json") /\ UNCHANGED <<secret, output>>
           ELSE IF resp.body.secret.tag # "Some"
           THEN Fail("no_secret") /\ UNCHANGED <<secret, output>>
           ELSE /\ secret' = resp.body.secret
                /\ output' = Append(output, <<"secret", resp.body.secret.val>>)
                /\ cpc' = "setup_code"
                /\ UNCHANGED result
    /\ UNCHANGED <<loginVars, code, response, posts, verify_response>>

\* a code prompt without the empty check
SetupCode_NoCheck ==
    /\ cpc = "setup_code"
    /\ \/ Fail("cancelled") /\ UNCHANGED code
       \/ \E typed \in Typed :
             code' = Trim(typed) /\ cpc' = "setup_verify" /\ UNCHANGED result
    /\ UNCHANGED <<loginVars, response, posts, secret, verify_response, output>>

\* the code prompt, trim, the empty check
SetupCode ==
    /\ cpc = "setup_code"
    /\ \/ Fail("cancelled") /\ UNCHANGED code
       \/ \E typed \in Typed :
             IF IsEmpty(Trim(typed))
             THEN Fail("validation") /\ UNCHANGED code
             ELSE code' = Trim(typed) /\ cpc' = "setup_verify" /\ UNCHANGED result
    /\ UNCHANGED <<loginVars, response, posts, secret, verify_response, output>>

\* client.post(/auth/2fa/verify).json({secret, code}).send().await?
SetupVerifyPost ==
    /\ cpc = "setup_verify"
    /\ posts' = Append(posts, [endpoint |-> "/auth/2fa/verify",
                               body |-> [secret |-> secret.val, code |-> code]])
    /\ \/ Fail("network") /\ UNCHANGED verify_response
       \/ \E resp \in VerifyResponses :
             verify_response' = Some(resp) /\ cpc' = "setup_verified" /\ UNCHANGED result
    /\ UNCHANGED <<loginVars, code, response, secret, output>>

\* for (i, code) in recovery_codes.iter().enumerate(): the lines printed
\* for the elements from the i-th on; an element that is no text is skipped
RECURSIVE RecoveryLines(_, _)
RecoveryLines(codes, i) ==
    IF i > Len(codes) THEN <<>>
    ELSE (IF codes[i].tag = "Some" THEN << <<"recovery_code", i, codes[i].val>> >> ELSE <<>>)
         \o RecoveryLines(codes, i + 1)

\* a classification of the verify answer that reports success whatever
\* the status
SetupVerifyResponse_FailureIsOk ==
    /\ cpc = "setup_verified"
    /\ Return("ok")
    /\ output' = Append(output, <<"enabled">>)
    /\ UNCHANGED <<loginVars, code, response, posts, secret, verify_response>>

\* the classification of the verify answer; on success verify_data is
\* parsed, "2FA enabled" is printed and the recovery codes are listed
SetupVerifyResponse ==
    /\ cpc = "setup_verified"
    /\ LET resp == verify_response.val
       IN  IF resp.ok
           THEN IF resp.body.json = "invalid"
                THEN Fail("bad_json") /\ UNCHANGED output
                ELSE /\ output' =
                          output \o << <<"enabled">> >> \o
                          (IF resp.body.recovery_codes.tag = "Some"
                           THEN << <<"recovery_header">> >> \o
                                RecoveryLines(resp.body.recovery_codes.val, 1)
                           ELSE <<>>)
                     /\ Return("ok")
           ELSE Fail("verify_failed") /\ UNCHANGED output
    /\ UNCHANGED <<loginVars, code, response, posts, secret, verify_response>>

NextSetup ==
    \/ SetupStart
    \/ SetupResponse
    \/ SetupCode
    \/ SetupVerifyPost
    \/ SetupVerifyResponse
    \/ ProcessExit

SpecSetup == InitSetup /\ [][NextSetup]_vars

(***************************************************************************)
(* parse_token_from_request on its own: any request text, parsed once      *)
(***************************************************************************)
InitParse ==
    /\ InitFlow
    /\ wpc = "parse"
    /\ request \in ParseRequests

\* let callback_result = parse_token_from_request(&request_str)
ParseRequest ==
    /\ wpc = "parse"
    /\ callback_result' = parse_token_from_request(BufferText(request))
    /\ readOk' = TRUE
    /\ wpc' = "parsed"
    /\ UNCHANGED <<cpc, choice, result, portOwner, accepted, conn, request,
                   pageWrites, txState, rxState, chan, sent, recvs, rx_result,
                   aborted, browser, elapsed, flowVars, exited, setupVars, arrived>>

NextParse == ParseRequest

SpecParse == InitParse /\ [][NextParse]_vars

(***************************************************************************)
(* What the claims call the target, the path, the query string and the     *)
(* parameters of a request, stated by position: the target is the second   *)
(* word of the request line, the path is the target up to its first "?",   *)
(* the query string runs from there to the next "?" or to the end of the   *)
(* target, the parameters are its pieces between "&".                      *)
(***************************************************************************)
IsRequestLine(req) ==
    /\ Len(req) >= 4
    /\ req[1] = "GET" /\ req[2] = " " /\ req[3] \notin {" ", "\n"}
    /\ \E i \in 4..Len(req) :
          req[i] = " " /\ \A j \in 3..(i - 1) : req[j] \notin {" ", "\n"}

Least(S) == CHOOSE i \in S : \A j \in S : i <= j

\* the path and the parameters of a request line; a parameter is given
\* with the position in the query string where it starts
RequestView(req) ==
    LET target == SubSeq(req, 3, Least({i \in 4..Len(req) : req[i] = " "}) - 1)
        marks  == {i \in 1..Len(target) : target[i] = "?"}
        later  == {i \in marks : i > Least(marks)}
        path   == IF marks = {} THEN target ELSE SubSeq(target, 1, Least(marks) - 1)
        query  == IF marks = {} THEN <<>>
                  ELSE SubSeq(target, Least(marks) + 1,
                              (IF later = {} THEN Len(target) + 1 ELSE Least(later)) - 1)
        breaks == {0, Len(query) + 1} \cup {i \in 1..Len(query) : query[i] = "&"}
        params == IF marks = {} THEN {}
                  ELSE {[at |-> b + 1,
                         text |-> SubSeq(query, b + 1, Least({n \in breaks : n > b}) - 1)] :
                          b \in breaks \ {Len(query) + 1}}
    IN  [path |-> path, params |-> params]

\* a request line for the callback path
IsCallbackRequest(req) ==
    IsRequestLine(req) /\ RequestView(req).path = <<"/auth/callback">>

StartsWith(text, p) == text # <<>> /\ text[1] = p

\* the parameters that start with token= or with 2fa_token=
AuthParams(req) ==
    {p \in RequestView(req).params :
        StartsWith(p.text, "token=") \/ StartsWith(p.text, "2fa_token=")}

TokenParams(req) == {p \in RequestView(req).params : StartsWith(p.text, "token=")}

\* the first of a non-empty set of parameters
FirstOf(params) == CHOOSE p \in params : \A q \in params : p.at <= q.at

\* the text of a parameter after its name
ValueOf(p) == SubSeq(p.text, 2, Len(p.text))

C2_TimeoutCancelsWorker ==
    result = "timeout"
    => (aborted /\ wpc \in {"done", "aborted"} /\ portOwner # "worker")

(***************************************************************************)
(* C3                                                                      *)
(***************************************************************************)
\* C3: when the login endpoint answered a password login with a success
\* status, a body without the 2fa_required flag and a session token, the
\* flow has handed that token to api::login, and it ends in success unless
\* api::login itself fails.
C3_PasswordSuccessCommits ==
    (choice = "password" /\ cpc = "returned" /\ response.tag = "Some"
        /\ response.val.ok /\ response.val.body.json = "object"
        /\ response.val.body.tfa_required = None
        /\ parse_token_from_header(response.val).tag = "Some")
    => /\ loginCalls = <<parse_token_from_header(response.val).val>>
       /\ result \in {"ok", "persist"}
       /\ result = "ok" <=> session = loginCalls

(***************************************************************************)
(* C4                                                                      *)
(***************************************************************************)
\* C4 as stated: token= has priority whatever the order: if any parameter
\* starts with token=, the outcome is Success with the value of the first
\* such parameter, and TwoFactor comes only when none starts with token=.
C4_TokenHasPriority ==
    (wpc = "parsed" /\ IsCallbackRequest(request))
    => IF TokenParams(request) # {}
       THEN callback_result = Some(Success(ValueOf(FirstOf(TokenParams(request)))))
       ELSE callback_result = None \/ callback_result.val.kind = "TwoFactor"

\* C4 as amended: the parameters are scanned in order and the first one
\* that starts with token= or with 2fa_token= decides: Success with its
\* value for token=, TwoFactor with its value for 2fa_token=; no outcome
\* when no parameter starts with either.  So ?2fa_token=Y&token=X yields
\* TwoFactor(Y).
C4_FirstAuthParamDecides ==
    (wpc = "parsed" /\ IsCallbackRequest(request))
    => IF AuthParams(request) = {} THEN callback_result = None
       ELSE LET p == FirstOf(AuthParams(request))
            IN  IF StartsWith(p.text, "token=")
                THEN callback_result = Some(Success(ValueOf(p)))
                ELSE callback_result = Some(TwoFactor(ValueOf(p)))

C4_Witness ==
    /\ wpc = "parsed" /\ IsCallbackRequest(request)
    /\ TokenParams(request) # {}
    /\ FirstOf(AuthParams(request)).at < FirstOf(TokenParams(request)).at
    /\ callback_result.tag = "Some" /\ callback_result.val.kind = "TwoFactor"

(***************************************************************************)
(* C5                                                                      *)
(***************************************************************************)
\* C5 as stated: no request goes to the login endpoint with an empty email
\* or with an empty password.
C5_EmptyEmailOrPasswordRejected ==
    \A i \in DOMAIN posts :
        posts[i].endpoint = "/auth/login"
        => posts[i].body.email # <<>> /\ posts[i].body.password # <<>>

\* C5 as amended: an email that is empty after trimming is rejected
\* locally: the attempt fails with the validation error and nothing is
\* sent; every login request carries a non-empty, trimmed email.  (The
\* password is not checked.)
C5_EmptyEmailRejected ==
    /\ \A i \in DOMAIN posts :
           posts[i].endpoint = "/auth/login"
           => posts[i].body.email # <<>> /\ Trim(posts[i].body.email) = posts[i].body.email
    /\ (choice = "password" /\ cpc \notin {"pw_email", "login"} /\ email = <<>>)
       => /\ cpc = "returned"
          /\ result \in {"validation", "cancelled", "settings"}
          /\ posts = <<>>

C5_Witness ==
    /\ choice = "password" /\ cpc = "returned" /\ email = <<>>
    /\ result = "validation" /\ posts = <<>>

(***************************************************************************)
(* C6                                                                      *)
(***************************************************************************)
\* the login endpoint answered with success, 2fa_required:true and a 2fa_token
Requires2fa ==
    /\ response.tag = "Some" /\ response.val.ok
    /\ response.val.body.json = "object"
    /\ response.val.body.tfa_required = Some(TRUE)
    /\ response.val.body.tfa_token.tag = "Some"

\* C6: once a password login was answered with 2fa_required:true and a
\* 2fa_token, control is in the 2FA challenge flow with that token, and
\* api::login is called (a session committed, success reported) only after
\* an authenticate request with that token was answered with success.
C6_PivotsTo2fa ==
    (choice = "password" /\ Requires2fa /\ cpc # "pw_response")
    => /\ two_fa_token = response.val.body.tfa_token.val
       /\ cpc \in {"tfa_prompt", "tfa_post", "tfa_response", "returned"}
       /\ (loginCalls # <<>> \/ session # <<>> \/ result = "ok")
          => /\ tfa_response.tag = "Some" /\ tfa_response.val.ok
             /\ Len(posts) = 2
             /\ posts[2].endpoint = "/auth/2fa/authenticate"
             /\ posts[2].body.tfa_token = response.val.body.tfa_token.val
             /\ Len(loginCalls) = 1
       /\ (cpc = "returned" /\ tfa_response.tag = "None")
          => result \in {"settings", "cancelled", "validation", "network"}

C6_Witness ==
    /\ choice = "password" /\ Requires2fa /\ cpc = "returned"
    /\ result = "ok" /\ Len(session) = 1
    /\ tfa_response.val.ok

(***************************************************************************)
(* C7                                                                      *)
(***************************************************************************)
\* C7: when the port is held by another process, the listener sends
\* Error("port") and ends without accepting a connection; the coordinator
\* receives it before any of the 120 seconds has passed, the attempt ends
\* with the port-conflict error and api::login is never called.
C7_BindFailureFailsFast ==
    (choice = "oauth" /\ portOwner = "other" /\ wpc \notin {"unspawned", "bind"})
    => /\ wpc = "done" /\ accepted = 0 /\ conn = "none"
       /\ sent = <<Error("port")>>
       /\ elapsed = 0
       /\ cpc \in {"open_browser", "await"} => chan = Some(Error("port"))
       /\ cpc = "returned" => result = "port"
       /\ loginCalls = <<>> /\ session = <<>>

C7_Witness ==
    /\ choice = "oauth" /\ portOwner = "other"
    /\ wpc = "done" /\ accepted = 0
    /\ cpc = "returned" /\ result = "port" /\ elapsed = 0

(***************************************************************************)
(* C8                                                                      *)
(***************************************************************************)
\* the listener task ran to its end on a request line for the callback path
ServedCallback == wpc = "done" /\ readOk /\ IsCallbackRequest(request)

\* C8: when the first parameter of the callback request that starts with
\* token= or 2fa_token= is token=X, the listener has passed exactly one
\* value to the channel, Success(X), X being the text of that parameter
\* after token=; a coordinator that is still waiting finds it in the channel
\* and a coordinator that received got exactly it.
C8_TokenSentOnce ==
    LET first == FirstOf(AuthParams(request))
        X == ValueOf(first)
    IN  (ServedCallback /\ AuthParams(request) # {} /\ StartsWith(first.text, "token="))
        => /\ sent = <<Success(X)>>
           /\ rxState = "live" => chan = Some(Success(X))
           /\ recvs = 1 => rx_result = Some(Success(X))
           /\ recvs <= 1

C8_Witness ==
    /\ ServedCallback
    /\ sent = <<Success(<<"a">>)>>
    /\ recvs = 1 /\ rx_result = Some(Success(<<"a">>))
    /\ ValueOf(FirstOf(AuthParams(request))) = <<"a">>

(***************************************************************************)
(* C9                                                                      *)
(***************************************************************************)
\* C9: when the callback request has a parameter 2fa_token=Y and no
\* parameter token=, the listener has passed exactly one value to the
\* channel, TwoFactor(Y), Y being the text after 2fa_token= of the first
\* such parameter; a waiting coordinator finds it in the channel and a
\* coordinator that received got exactly it.
C9_TwoFactorSentOnce ==
    (ServedCallback /\ AuthParams(request) # {} /\ TokenParams(request) = {})
    => LET Y == ValueOf(FirstOf(AuthParams(request)))
       IN  /\ sent = <<TwoFactor(Y)>>
           /\ rxState = "live" => chan = Some(TwoFactor(Y))
           /\ recvs = 1 => rx_result = Some(TwoFactor(Y))
           /\ recvs <= 1

C9_Witness ==
    /\ ServedCallback
    /\ TokenParams(request) = {}
    /\ sent = <<TwoFactor(<<"a">>)>>
    /\ recvs = 1 /\ rx_result = Some(TwoFactor(<<"a">>))

(***************************************************************************)
(* C10                                                                     *)
(***************************************************************************)
\* C10 as stated: when the listener task has ended after accepting a
\* connection, it has written the page and closed the connection, whether
\* or not the read succeeded.
C10_PageOnEveryConnection ==
    (wpc = "done" /\ accepted = 1) => (pageWrites = 1 /\ conn = "closed")

\* C10 as amended: on an accepted connection whose read succeeds the
\* listener writes the page once, then shuts the connection down, then
\* sends what it parsed, if anything; it does so whether or not an outcome
\* was parsed.  When the read fails it writes nothing and only drops the
\* connection.
C10_PageAfterSuccessfulRead ==
    /\ (wpc = "done" /\ accepted = 1 /\ readOk) => (pageWrites = 1 /\ conn = "closed")
    /\ (wpc = "done" /\ accepted = 1 /\ ~readOk) => (pageWrites = 0 /\ conn = "closed")
    /\ conn = "shutdown" => pageWrites = 1
    /\ (sent # <<>> /\ accepted = 1) => (pageWrites = 1 /\ conn \in {"shutdown", "closed"})
    /\ pageWrites <= accepted /\ accepted <= 1

C10_Witness ==
    /\ wpc = "done" /\ accepted = 1 /\ readOk
    /\ callback_result = None
    /\ pageWrites = 1 /\ conn = "closed"

(***************************************************************************)
(* C11                                                                     *)
(***************************************************************************)
\* C11: once an OAuth attempt has ended, with an outcome or with the
\* timeout, its listener no longer holds the port.
C11_FinishedAttemptFreesPort ==
    (choice = "oauth" /\ cpc = "returned") => portOwner # "worker"

(***************************************************************************)
(* C12                                                                     *)
(***************************************************************************)
\* handle_2fa_authentication has been called: from the OAuth flow with a
\* received TwoFactor value, or from the password flow with a login answer
\* that carries the flag and a 2fa_token
Entered2fa ==
    \/ /\ choice = "oauth" /\ rx_result.tag = "Some"
       /\ rx_result.val.kind = "TwoFactor"
       /\ cpc \notin {"abort", "classify"}
    \/ /\ choice = "password" /\ response.tag = "Some" /\ response.val.ok
       /\ response.val.body.json = "object"
       /\ response.val.body.tfa_required.tag = "Some"
       /\ response.val.body.tfa_token.tag = "Some"
       /\ cpc # "pw_response"

\* the requests sent to the authenticate endpoint
AuthenticatePosts ==
    {i \in DOMAIN posts : posts[i].endpoint = "/auth/2fa/authenticate"}

\* C12: in the 2FA challenge flow a code that is empty after trimming is
\* rejected locally: past the prompt with an empty code the flow has ended
\* with the validation error (or the prompt was cancelled, or the settings
\* could not be loaded), no request went to the authenticate endpoint and
\* no session was committed; every authenticate request carries a
\* non-empty code.
C12_Empty2faCodeRejected ==
    /\ \A i \in AuthenticatePosts : posts[i].body.code # <<>>
    /\ (Entered2fa /\ cpc # "tfa_prompt" /\ code = <<>>)
       => /\ cpc = "returned"
          /\ result \in {"validation", "cancelled", "settings"}
          /\ AuthenticatePosts = {}
          /\ loginCalls = <<>> /\ session = <<>>
    /\ (Entered2fa /\ result = "validation")
       => (code = <<>> /\ AuthenticatePosts = {} /\ session = <<>>)

C12_Witness ==
    /\ Entered2fa /\ cpc = "returned" /\ result = "validation"
    /\ code = <<>> /\ AuthenticatePosts = {} /\ session = <<>>

(***************************************************************************)
(* C13                                                                     *)
(***************************************************************************)
\* the recovery-code lines and the headers printed so far
RecoveryShown == {i \in DOMAIN output : output[i][1] = "recovery_code"}
HeadersShown == {i \in DOMAIN output : output[i][1] = "recovery_header"}

\* a verify request was sent / was answered with a success status
VerifySent == \E i \in DOMAIN posts : posts[i].endpoint = "/auth/2fa/verify"
VerifySucceeded == verify_response.tag = "Some" /\ verify_response.val.ok

\* C13: in 2FA enrollment, when the verify request does not succeed (it
\* cannot be sent or is answered with a non-success status) no recovery
\* code is displayed and the run ends in failure; recovery codes are
\* displayed only after a verify answer with a success status, under one
\* header, each text element of the answer's array once and nothing else.
C13_RecoveryCodesOnlyAfterVerify ==
    /\ (VerifySent /\ ~VerifySucceeded)
       => /\ RecoveryShown = {} /\ HeadersShown = {}
          /\ cpc \in {"setup_verified", "returned"}
          /\ cpc = "returned" => result \in {"network", "verify_failed"}
    /\ (RecoveryShown # {} \/ HeadersShown # {})
       => /\ VerifySucceeded /\ cpc = "returned" /\ result = "ok"
          /\ verify_response.val.body.json = "object"
          /\ verify_response.val.body.recovery_codes.tag = "Some"
    /\ \A i \in RecoveryShown :
          LET codes == verify_response.val.body.recovery_codes.val
          IN  /\ output[i][2] \in DOMAIN codes
              /\ codes[output[i][2]] = Some(output[i][3])
              /\ \A j \in RecoveryShown : output[j][2] = output[i][2] => j = i
    /\ Cardinality(HeadersShown) <= 1

C13_Witness ==
    /\ VerifySent /\ verify_response.tag = "Some" /\ ~verify_response.val.ok
    /\ cpc = "returned" /\ result = "verify_failed"
    /\ RecoveryShown = {}

C15_SuccessMeansSession ==
    (cpc = "returned" /\ result = "ok") => (Len(loginCalls) = 1 /\ session = loginCalls)

\* C15 as amended: a run of the login command has no outcome until it
\* ends and one when it has ended; api::login is called at most once; an
\* OAuth or password attempt reports success only when that one call
\* returned without error, the session then holding the token handed over,
\* and an attempt that ends with an error or a cancellation has committed
\* nothing; a registration ends in success or in an error without calling
\* api::login and without a session.
C15_OneTerminalOutcome ==
    /\ (cpc = "returned") <=> (result # "none")
    /\ Len(loginCalls) <= 1
    /\ (choice \in {"oauth", "password"} /\ result = "ok")
       => (Len(loginCalls) = 1 /\ session = loginCalls)
    /\ result # "ok" => session = <<>>
    /\ choice = "register" => (loginCalls = <<>> /\ session = <<>>)

C15_Witness ==
    /\ choice = "oauth" /\ cpc = "returned" /\ result = "ok"
    /\ Len(loginCalls) = 1 /\ session = loginCalls
    /\ aborted

(***************************************************************************)
(* C16                                                                     *)
(***************************************************************************)
\* the login endpoint answered with a non-success status and the error
\* code EMAIL_NOT_VERIFIED
EmailNotVerified ==
    /\ choice = "password"
    /\ response.tag = "Some" /\ ~response.val.ok
    /\ response.val.body.json = "object"
    /\ response.val.body.error_code = Some(<<"EMAIL_NOT_VERIFIED">>)

\* the line handle_resend_verification printed, if it got an answer
ResendLines ==
    {i \in DOMAIN output : output[i] \in {<<"resend_sent">>, <<"resend_failed">>}}

\* C16: when the login endpoint reports an unverified email, the attempt
\* never reports success and never calls api::login or commits a session;
\* it ends with an error whether the user declines the resend, cancels the
\* prompt, or accepts it, and then whether the resend cannot be sent, is
\* answered with success or is answered with a failure.
C16_UnverifiedEmailStaysFailed ==
    EmailNotVerified
    => /\ result # "ok" /\ loginCalls = <<>> /\ session = <<>>
       /\ cpc \in {"pw_response", "pw_confirm", "pw_resend", "returned"}
       /\ cpc = "returned"
          => result \in {"not_verified", "cancelled", "settings", "network"}
       /\ ResendLines # {} => (cpc = "returned" /\ result = "not_verified")

C16_Witness ==
    /\ EmailNotVerified /\ cpc = "returned" /\ result = "not_verified"
    /\ output = << <<"resend_sent">> >>
    /\ Len(posts) = 2 /\ posts[2].endpoint = "/auth/resend-verification"

(***************************************************************************)
(* C17                                                                     *)
(***************************************************************************)
\* C17: a password login is in the 2FA challenge flow if and only if the
\* login endpoint answered with success and a body whose 2fa_required is
\* true (and that carries a 2fa_token); an answer whose flag is absent,
\* false or of another type never leads to the 2FA flow or to its errors.
C17_PivotsIffFlagTrue ==
    (choice = "password" /\ response.tag = "Some" /\ cpc # "pw_response")
    => LET resp == response.val
           flagged == /\ resp.ok /\ resp.body.json = "object"
                      /\ resp.body.tfa_required = [tag |-> "Some", val |-> TRUE]
       IN  /\ (flagged /\ resp.body.tfa_token.tag = "Some")
              => /\ two_fa_token = resp.body.tfa_token.val
                 /\ cpc \in {"tfa_prompt", "tfa_post", "tfa_response", "returned"}
           /\ ~flagged
              => /\ cpc \notin {"tfa_prompt", "tfa_post", "tfa_response"}
                 /\ two_fa_token = <<>> /\ code = <<>>
                 /\ AuthenticatePosts = {}
                 /\ result # "no_2fa_token"

(***************************************************************************)
(* C18                                                                     *)
(***************************************************************************)
\* the coordinator took a Success value from the channel
ReceivedSuccess ==
    /\ choice = "oauth" /\ rx_result.tag = "Some"
    /\ rx_result.val.kind = "Success"

\* C18: when the coordinator has received Success(token), api::login is
\* not called before the match; once the attempt has ended api::login was
\* called once, with exactly that token, and the attempt reports success
\* if that call stored the session and the persistence error if it did
\* not.
C18_SuccessTokenHandedOver ==
    ReceivedSuccess
    => LET token == rx_result.val.val
       IN  /\ cpc \in {"abort", "classify", "returned"}
           /\ cpc # "returned" => (loginCalls = <<>> /\ session = <<>>)
           /\ cpc = "returned"
              => /\ loginCalls = <<token>>
                 /\ result \in {"ok", "persist"}
                 /\ result = "ok" <=> session = <<token>>
                 /\ result = "persist" <=> session = <<>>

C18_Witness ==
    /\ ReceivedSuccess /\ rx_result.val.val = <<"a">>
    /\ cpc = "returned" /\ result = "ok"
    /\ loginCalls = << <<"a">> >> /\ session = << <<"a">> >>

(***************************************************************************)
(* C19                                                                     *)
(***************************************************************************)
\* the coordinator took a TwoFactor value from the channel
ReceivedTwoFactor ==
    /\ choice = "oauth" /\ rx_result.tag = "Some"
    /\ rx_result.val.kind = "TwoFactor"

\* C19: when the coordinator has received TwoFactor(token), it goes on in
\* the 2FA challenge flow with exactly that token: the authenticate request
\* carries it; the OAuth attempt ends with what the challenge flow ends
\* with and with nothing of its own: success exactly when the authenticate
\* endpoint answered with success, a token was found in the answer and
\* api::login stored it; otherwise the error of the step of the challenge
\* flow that failed.
C19_TwoFactorResultIsSubflowResult ==
    ReceivedTwoFactor
    => LET token == rx_result.val.val
       IN  /\ cpc \in {"abort", "classify", "tfa_prompt", "tfa_post",
                       "tfa_response", "returned"}
           /\ cpc \notin {"abort", "classify"} => two_fa_token = token
           /\ Cardinality(AuthenticatePosts) <= 1
           /\ \A i \in AuthenticatePosts :
                 posts[i].body = [tfa_token |-> token, code |-> code]
           /\ cpc = "returned"
              => /\ result \in {"settings", "cancelled", "validation", "network",
                                "tfa_failed", "no_token", "persist", "ok"}
                 /\ result \in {"settings", "cancelled", "validation"}
                    <=> AuthenticatePosts = {}
                 /\ result = "network"
                    <=> (AuthenticatePosts # {} /\ tfa_response.tag = "None")
                 /\ result = "tfa_failed"
                    <=> (tfa_response.tag = "Some" /\ ~tfa_response.val.ok)
                 /\ result \in {"no_token", "persist", "ok"}
                    <=> (tfa_response.tag = "Some" /\ tfa_response.val.ok)
                 /\ result = "ok" <=> Len(session) = 1
                 /\ result \in {"persist", "ok"} <=> Len(loginCalls) = 1

C19_Witness ==
    /\ ReceivedTwoFactor /\ rx_result.val.val = <<"a">>
    /\ cpc = "returned" /\ result = "tfa_failed"
    /\ Len(posts) = 1 /\ posts[1].body.tfa_token = <<"a">>

(***************************************************************************)
(* C20                                                                     *)
(***************************************************************************)
\* the authenticate endpoint has answered and the challenge flow has ended
TwoFactorAnswered ==
    Entered2fa /\ tfa_response.tag = "Some" /\ cpc = "returned"

\* C20 as stated: in the 2FA challenge flow a session is committed exactly
\* when the authenticate endpoint answers with success (api::login itself
\* not failing).
C20_CommitIffSuccessAnswer ==
    (TwoFactorAnswered /\ result # "persist")
    => (Len(session) = 1 <=> tfa_response.val.ok)

\* C20 as amended: a session is committed only after a success answer of
\* the authenticate endpoint, and then only if the first Set-Cookie header
\* of that answer holds a token cookie: that token is handed to api::login
\* and is the session when api::login succeeds; a success answer without
\* it ends the flow with the token-not-found error and nothing committed.
\* On a non-success answer api::login is not called, nothing is committed
\* and the flow fails with the message of the answer's body, or with
\* "Invalid 2FA code." when the body has no text message.
C20_CommitOnlyWithTokenOfSuccessAnswer ==
    /\ (Entered2fa /\ (loginCalls # <<>> \/ session # <<>>))
       => /\ tfa_response.tag = "Some" /\ tfa_response.val.ok
          /\ cpc = "returned"
    /\ TwoFactorAnswered
       => LET resp == tfa_response.val
              cookies == resp.set_cookie
              found == parse_token_from_header(resp)
          IN  IF resp.ok
              THEN IF found.tag = "Some"
                   THEN /\ loginCalls = <<found.val>>
                        /\ result \in {"ok", "persist"}
                        /\ result = "ok" <=> session = <<found.val>>
                        /\ result = "persist" <=> session = <<>>
                        /\ cookies # <<>> /\ "token" \in {cookies[1][k] : k \in DOMAIN cookies[1]}
                   ELSE /\ result = "no_token"
                        /\ loginCalls = <<>> /\ session = <<>>
              ELSE /\ result = "tfa_failed"
                   /\ loginCalls = <<>> /\ session = <<>>
                   /\ output = << <<"2FA authentication failed",
                                    IF resp.body.json = "object" /\ resp.body.message.tag = "Some"
                                    THEN resp.body.message.val
                                    ELSE <<"Invalid 2FA code.">> >> >>

C20_Witness ==
    /\ TwoFactorAnswered /\ ~tfa_response.val.ok
    /\ result = "tfa_failed" /\ session = <<>>
    /\ output = << <<"2FA authentication failed", <<"m">> >> >>

(***************************************************************************)
(* C21                                                                     *)
(***************************************************************************)
\* the requests sent to the login endpoint
LoginPosts == {i \in DOMAIN posts : posts[i].endpoint = "/auth/login"}

\* C21: nothing is retried in one run of the login command: the listener
\* task is spawned once and makes one bind attempt, which it never comes
\* back to; at most one request goes to the login endpoint and at most one
\* to the authenticate endpoint; a non-success answer of the authenticate
\* endpoint ends the attempt with the 2FA failure.
C21_NothingRetried ==
    /\ [](Cardinality(LoginPosts) <= 1 /\ Cardinality(AuthenticatePosts) <= 1)
    /\ []((tfa_response.tag = "Some" /\ ~tfa_response.val.ok /\ cpc # "tfa_response")
          => (cpc = "returned" /\ result = "tfa_failed"))
    /\ [][wpc' = "bind" => wpc \in {"unspawned", "bind"}]_vars
    /\ [][wpc = "bind" /\ wpc' # "bind"
          => \/ wpc' = "accept" /\ portOwner = "free" /\ portOwner' = "worker"
             \/ wpc' = "done" /\ portOwner' = portOwner /\ portOwner # "free"
             \/ wpc' = "aborted"]_vars
    /\ [][portOwner' = "worker" => (portOwner = "worker" \/ wpc = "bind")]_vars
    /\ [][cpc = "returned" => (cpc' = "returned" /\ posts' = posts)]_vars

C21_Witness ==
    /\ choice = "oauth" /\ cpc = "returned" /\ result = "tfa_failed"
    /\ Cardinality(AuthenticatePosts) = 1
    /\ wpc = "done" /\ portOwner = "free"

(***************************************************************************)
(* C22                                                                     *)
(***************************************************************************)
\* C22: a browser that cannot be opened does not end the attempt: the
\* launch step always leads to the wait on the channel, with no outcome
\* set and the listener task left as it is; after the URL was printed the
\* coordinator is in the wait or past it, the listener task has been
\* spawned, and the attempt ends with the outcomes of the wait and of what
\* follows it, success among them.
C22_BrowserFailureNotFatal ==
    /\ [][(cpc = "open_browser" /\ cpc' # "open_browser")
          => /\ cpc' = "await" /\ result' = "none"
             /\ browser = "none" /\ browser' \in {"opened", "printed"}
             /\ wpc' = wpc /\ rxState' = rxState /\ rxState = "live"]_vars
    /\ [](browser = "printed"
          => /\ cpc \in {"await", "abort", "classify", "tfa_prompt", "tfa_post",
                         "tfa_response", "returned"}
             /\ wpc # "unspawned"
             /\ result # "browser")

C22_Witness ==
    /\ browser = "printed" /\ cpc = "returned" /\ result = "ok"
    /\ accepted = 1 /\ sent # <<>> /\ sent[1].kind = "Success"
    /\ Len(session) = 1

(***************************************************************************)
(* C23                                                                     *)
(***************************************************************************)
\* C23: the channel carries at most one value per attempt: the listener
\* task calls send at most once, with Error("port") when the bind failed
\* (and then no connection was accepted and nothing parsed) or else with
\* the one outcome it parsed; the coordinator receives at most once, and
\* what it receives or finds in the channel is that value.
C23_AtMostOneValue ==
    /\ Len(sent) <= 1 /\ recvs <= 1
    /\ sent # <<>>
       => /\ txState = "used"
          /\ IF accepted = 0
             THEN sent[1] = [kind |-> "Error", val |-> "port"] /\ callback_result = None
             ELSE callback_result = Some(sent[1]) /\ sent[1].kind \in {"Success", "TwoFactor"}
    /\ chan.tag = "Some" => (sent # <<>> /\ chan.val = sent[1] /\ recvs = 0)
    /\ recvs = 1 <=> rx_result.tag = "Some"
    /\ recvs = 1 => (sent # <<>> /\ rx_result.val = sent[1] /\ chan = None)
    /\ sent = <<>> => (chan = None /\ recvs = 0)

C23_Witness ==
    /\ Len(sent) = 1 /\ recvs = 1
    /\ accepted = 1 /\ sent[1].kind = "TwoFactor"
    /\ wpc = "done" /\ cpc = "returned"

(***************************************************************************)
(* C24                                                                     *)
(***************************************************************************)
\* C24: the listener is single-use: it accepts at most one connection,
\* however many arrive while it holds the port; once a connection has been
\* accepted no other is, and once a request has been read the request and
\* the outcome parsed from it never change, so a later connection neither
\* produces nor replaces an outcome.
C24_ListenerSingleUse ==
    /\ [](accepted <= 1 /\ accepted <= arrived)
    /\ [](callback_result.tag = "Some" => (accepted = 1 /\ readOk))
    /\ [][accepted' # accepted
          => (accepted = 0 /\ accepted' = 1 /\ wpc = "accept" /\ portOwner = "worker")]_vars
    /\ [][accepted = 1 => wpc' # "accept"]_vars
    /\ [][readOk => (request' = request /\ callback_result' = callback_result)]_vars
    /\ [][sent # <<>> => sent' = sent]_vars

C24_Witness ==
    /\ arrived = 2 /\ accepted = 1
    /\ wpc = "done" /\ portOwner = "free"
    /\ callback_result.tag = "Some" /\ sent = <<callback_result.val>>

(***************************************************************************)
(* C25                                                                     *)
(***************************************************************************)
\* C25: whenever the coordinator has received a value from the channel, it
\* calls server_handle.abort() before the match on the value: the match is
\* only entered, a session only committed and the 2FA challenge only
\* started after the abort, and by then the worker is finished or cancelled.
C25_CancelBeforeClassify ==
    /\ []((rx_result.tag = "Some" /\ cpc # "abort")
            => (aborted /\ wpc \in {"done", "aborted"} /\ portOwner # "worker"))
    /\ []((rx_result.tag = "Some" /\ ~aborted)
            => (loginCalls = <<>> /\ session = <<>> /\ posts = <<>>
                /\ two_fa_token = <<>>))
    /\ [][(rx_result.tag = "Some"
           /\ (loginCalls' # loginCalls \/ two_fa_token' # two_fa_token
               \/ result' # result))
          => aborted]_vars

C25_Witness ==
    /\ choice = "oauth" /\ rx_result.tag = "Some"
    /\ rx_result.val.kind = "Success"
    /\ aborted /\ session = <<rx_result.val.val>>

(***************************************************************************)
(* C26                                                                     *)
(***************************************************************************)
\* the events after which the session may be stored, with the token each
\* of them supplies
CallbackSuccessEvent ==
    /\ choice = "oauth" /\ rx_result.tag = "Some"
    /\ rx_result.val.kind = "Success"
    /\ loginCalls = <<rx_result.val.val>>

LoginResponseEvent ==
    /\ choice = "password" /\ response.tag = "Some" /\ response.val.ok
    /\ tfa_response.tag = "None"
    /\ LET token == parse_token_from_header(response.val)
       IN  token.tag = "Some" /\ loginCalls = <<token.val>>

AuthenticateResponseEvent ==
    /\ tfa_response.tag = "Some" /\ tfa_response.val.ok
    /\ LET token == parse_token_from_header(tfa_response.val)
       IN  token.tag = "Some" /\ loginCalls = <<token.val>>

FailedWithoutToken ==
    {"port", "timeout", "closed", "login_failed", "tfa_failed", "not_verified",
     "register_failed", "no_token", "no_2fa_token", "bad_json", "validation",
     "cancelled", "network", "settings", "client", "browser"}

\* C26: api::login is called only after a callback Success was received or
\* a login or authenticate response with success status supplied the token,
\* and with that token; an attempt that ended in a bind error, a timeout, a
\* closed channel, a failed login, a failed 2FA verification, or a
\* registration never called it.
C26_PersistOnlyAfterTokenEvent ==
    /\ loginCalls # <<>>
         => (CallbackSuccessEvent \/ LoginResponseEvent \/ AuthenticateResponseEvent)
    /\ (cpc = "returned" /\ result \in FailedWithoutToken)
         => (loginCalls = <<>> /\ session = <<>>)
    /\ choice = "register" => (loginCalls = <<>> /\ session = <<>>)

C26_Witness ==
    /\ choice = "password" /\ AuthenticateResponseEvent
    /\ session = loginCalls /\ cpc = "returned" /\ result = "ok"

(***************************************************************************)
(* C27                                                                     *)
(***************************************************************************)
\* C27: in an OAuth attempt the browser is launched (or the URL printed)
\* exactly once, before the coordinator first reads the channel, and the
\* launch does not wait for the listener task: it can be taken whatever the
\* task has done so far, the bind not yet attempted included. So the wait
\* on the channel is never entered or left without the launch, and an
\* attempt that ends with the port-conflict error has launched the browser.
C27_BrowserOnceBeforeWait ==
    /\ [][browser' # browser
          => /\ browser = "none" /\ browser' \in {"opened", "printed"}
             /\ cpc = "open_browser" /\ cpc' = "await"
             /\ recvs = 0 /\ rx_result.tag = "None" /\ rxState = "live"]_vars
    /\ []((cpc \in {"await", "abort", "classify"} \/ rxState \in {"used", "dropped"})
            => browser # "none")
    /\ [](cpc = "open_browser" => ENABLED (Next /\ browser' # browser))
    /\ []((choice = "oauth" /\ cpc = "returned" /\ result = "port")
            => browser # "none")

C27_Witness ==
    /\ choice = "oauth" /\ cpc = "returned" /\ result = "port"
    /\ portOwner = "other" /\ accepted = 0
    /\ browser \in {"opened", "printed"} /\ recvs = 1

(***************************************************************************)
(* C28                                                                     *)
(***************************************************************************)
\* an outcome parsed from a connection
FromConnection(v) == v.kind \in {"Success", "TwoFactor"}

\* C28: the listener task sends an outcome parsed from a connection only
\* after it has attempted to write the confirmation page and to shut the
\* connection down; whenever the coordinator holds a received Success or
\* TwoFactor the write on that connection has been attempted; and the
\* coordinator's abort never stops the task before the page: when abort is
\* called the task has already finished.
C28_PageBeforeOutcome ==
    /\ [][(sent' # sent /\ FromConnection(sent'[Len(sent')]))
          => (wpc = "send" /\ pageWrites = 1 /\ conn = "shutdown"
              /\ accepted = 1 /\ readOk)]_vars
    /\ []((rx_result.tag = "Some" /\ FromConnection(rx_result.val))
            => (pageWrites = 1 /\ accepted = 1 /\ wpc = "done"))
    /\ []((chan.tag = "Some" /\ FromConnection(chan.val)) => pageWrites = 1)
    /\ [][(~aborted /\ aborted') => (wpc = "done" /\ wpc' = "done"
                                     /\ pageWrites' = pageWrites)]_vars
    /\ []((aborted /\ accepted = 1) => pageWrites = 1)

C28_Witness ==
    /\ aborted /\ wpc = "done" /\ accepted = 1 /\ pageWrites = 1
    /\ rx_result.tag = "Some" /\ rx_result.val.kind = "TwoFactor"
    /\ cpc = "tfa_prompt"

(***************************************************************************)
(* C29                                                                     *)
(***************************************************************************)
\* the first line of the request does not contain /auth/callback
NoCallbackInFirstLine(req) ==
    \A i \in 1..Len(req) :
        req[i] = "/auth/callback" => \E j \in 1..(i - 1) : req[j] = "\n"

\* the request has no "?", so no query string
NoQueryString(req) == \A i \in 1..Len(req) : req[i] # "?"

CarriesAuthParam(req) ==
    \E i \in 2..Len(req) : req[i - 1] \in {"?", "&"} /\ req[i] \in {"token=", "2fa_token="}

\* C29: a request read from the accepted connection whose first line does
\* not contain /auth/callback, or that has no "?", yields no outcome,
\* whatever parameters it carries: nothing is parsed from it and nothing is
\* sent on the channel; the confirmation page is still written on that
\* connection: the step of the task that follows the read is the write,
\* and a task that is past it or has ended has written the page.  (A task
\* that the end of the process stops before its write is not past it.)
C29_NoOutcomeButPage ==
    /\ []((readOk /\ accepted = 1
           /\ (NoCallbackInFirstLine(request) \/ NoQueryString(request)))
            => /\ callback_result.tag = "None"
               /\ sent = <<>> /\ chan.tag = "None" /\ rx_result.tag = "None"
               /\ ~aborted
               /\ (wpc \in {"shutdown", "send", "done"} => pageWrites = 1)
               /\ (wpc \notin {"write", "shutdown", "send", "done"} => exited))
    /\ [][(readOk /\ wpc = "write" /\ wpc' # "write" /\ ~exited'
           /\ (NoCallbackInFirstLine(request) \/ NoQueryString(request)))
          => (pageWrites' = pageWrites + 1 /\ wpc' = "shutdown")]_vars

C29_Witness ==
    /\ readOk /\ accepted = 1
    /\ NoCallbackInFirstLine(request) /\ CarriesAuthParam(request)
    /\ callback_result.tag = "None" /\ pageWrites = 1
    /\ wpc = "done" /\ sent = <<>>

(***************************************************************************)
(* C30                                                                     *)
(***************************************************************************)
VerifyPosts == {i \in DOMAIN posts : posts[i].endpoint = "/auth/2fa/verify"}

\* the setup request was answered with success and a secret
SetupGaveSecret ==
    /\ response.tag = "Some" /\ response.val.ok
    /\ response.val.body.json = "object"
    /\ response.val.body.secret.tag = "Some"

\* C30: in 2FA enrollment at most one verify request is sent per run; it is
\* sent only after the setup request, answered with success and a secret,
\* and after a code was entered that is not empty once trimmed; it carries
\* the secret of the setup answer and that code.  A run whose setup request
\* fails or returns no secret, or whose code is empty, ends in failure with
\* no verify request sent.
C30_VerifyOnceAfterSetupAndCode ==
    /\ [](Cardinality(VerifyPosts) <= 1)
    /\ [](\A i \in VerifyPosts :
             /\ i = 2 /\ posts[1].endpoint = "/auth/2fa/setup"
             /\ SetupGaveSecret
             /\ posts[i].body.secret = response.val.body.secret.val
             /\ posts[i].body.code # <<>>
             /\ ~IsWhitespace(posts[i].body.code[1])
             /\ ~IsWhitespace(posts[i].body.code[Len(posts[i].body.code)]))
    /\ [][posts' # posts /\ VerifyPosts' # {}
          => (cpc = "setup_verify" /\ VerifyPosts = {} /\ code # <<>>
              /\ posts' = Append(posts, [endpoint |-> "/auth/2fa/verify",
                                         body |-> [secret |-> response.val.body.secret.val,
                                                   code |-> code]]))]_vars
    /\ []((cpc = "returned" /\ (~SetupGaveSecret \/ code = <<>>))
            => (result # "ok" /\ VerifyPosts = {}))
    /\ [](result \in {"setup_failed", "no_secret", "validation"}
            => (cpc = "returned" /\ VerifyPosts = {}))

C30_Witness ==
    /\ VerifyPosts = {2} /\ SetupGaveSecret
    /\ posts[2].body = [secret |-> <<"s2">>, code |-> <<"x">>]
    /\ cpc = "returned" /\ result = "ok"

=============================================================================
